---- MODULE Spec2Model ----
(***************************************************************************)
(* MANGESTIC CTF API (src/main.py, src/schemas.py): the HTTP handlers over *)
(* the three store collections "user", "challenge" and "solve".            *)
(*                                                                         *)
(* Texts that the handlers only copy are TLA+ strings.  Texts that the     *)
(* code parses or formats (the challenge_id of a submission, the string    *)
(* form of a store identifier) are sequences of one-character strings, and *)
(* a store identifier (bson ObjectId) is its sequence of bytes.            *)
(***************************************************************************)
EXTENDS Integers, Sequences, FiniteSets, Bags, TLC

VARIABLES
    user,        \* db["user"]: the User documents, in insertion order
    challenge,   \* db["challenge"]: the Challenge documents, in insertion order
    solve,       \* db["solve"]: the Solve documents, in insertion order
    resp,        \* the last response sent: handler, payload, status, body
    registering, \* bag of the register requests between find_one and insert
    submitting,  \* bag of the submit_flag requests between find_one and insert
    registered,  \* history: registered[i] is the payload user[i] was registered with
    contributed, \* history: contributed[i] is the payload challenge[i] came with
    accepted     \* history: the points of each accepted submission, in order

vars == <<user, challenge, solve, resp, registering, submitting, registered, contributed, accepted>>

----------------------------------------------------------------------------
(* Bounds of the model *)

MaxDocs == 3
MaxSeedSolvers == 51
MaxSeedChallenges == 101

(* Program constants *)

LIST_LIMIT == 100
LEADERBOARD_LIMIT == 50
OID_LEN == 24

None == "None"
ANONYMOUS == "anonymous"

----------------------------------------------------------------------------
(* Request inputs *)

Usernames == {"alice", "bob"}
Emails == {"alice@example.com", "bob@example.com"}
Passwords == {"pw123", "alice"}
Flags == {"flag{abc}", "Warmup"}
Titles == {"Warmup"}
PointValues == {-1, 0, 100}

----------------------------------------------------------------------------
(* sha256(text): hashlib.sha256(text.encode()).hexdigest(), tabulated on the *)
(* texts the requests of this model carry.                                    *)

sha256(text) ==
    CASE text = "pw123"     -> "23d47445adfb8991789b459b6ba1b974d727d310aa9d80b7c2875b9430c0ba25"
      [] text = "alice"     -> "2bd806c97f0e00af1a1fc3328fa763a9269723c8db8fac4f93af71db186d6e90"
      [] text = "bob"       -> "81b637d8fcd2c6da6359e6963113a1170de795e4b725b84d1e0b4cfd9ec58ce9"
      [] text = "flag{abc}" -> "9a5e17b8c2468939f80076866ef826518bc45c034f43e31b876f288693e6e64d"
      [] text = "flag{xyz}" -> "6ff5b0a905c99aa6d3356ab036318f021b3b4248f901cc497e5d5aeb4996bb27"
      [] text = "Warmup"    -> "111a4d2e2ef3e4223aef706c955ee3a90cd3bcbccf999208b7411d99156b5dfb"

----------------------------------------------------------------------------
(* Store identifiers: ObjectId(str) and str(ObjectId) *)

HexDigits == <<"0", "1", "2", "3", "4", "5", "6", "7", "8", "9",
               "a", "b", "c", "d", "e", "f">>
UpperHex == <<"0", "1", "2", "3", "4", "5", "6", "7", "8", "9",
              "A", "B", "C", "D", "E", "F">>
(* The characters bytes.fromhex skips: space, \t, \n, \r, \v, \f.  VT stands *)
(* for the vertical tab, which a TLA+ string cannot hold.                   *)
VT == "\\v"
Whitespace == {" ", "\t", "\n", "\r", VT, "\f"}

IsHex(c) == \E i \in 1..16 : HexDigits[i] = c \/ UpperHex[i] = c
HexVal(c) == (CHOOSE i \in 1..16 : HexDigits[i] = c \/ UpperHex[i] = c) - 1

(* bytes.fromhex(s) from position i: whitespace between byte pairs is      *)
(* skipped, every byte is two adjacent hex digits of either case.          *)
RECURSIVE FromHexAt(_, _)
FromHexAt(s, i) ==
    IF i > Len(s) THEN [ok |-> TRUE, bytes |-> <<>>]
    ELSE IF s[i] \in Whitespace THEN FromHexAt(s, i + 1)
    ELSE IF i + 1 <= Len(s) /\ IsHex(s[i]) /\ IsHex(s[i + 1])
         THEN LET r == FromHexAt(s, i + 2)
              IN  [ok |-> r.ok,
                   bytes |-> <<16 * HexVal(s[i]) + HexVal(s[i + 1])>> \o r.bytes]
         ELSE [ok |-> FALSE, bytes |-> <<>>]

(* ObjectId(s) for a str s: InvalidId unless s has 24 characters that      *)
(* bytes.fromhex accepts.                                                  *)
ObjectId(s) ==
    IF Len(s) = OID_LEN THEN FromHexAt(s, 1) ELSE [ok |-> FALSE, bytes |-> <<>>]

(* str(oid): the lower-case hex digits of the identifier's bytes *)
RECURSIVE StrOid(_)
StrOid(oid) ==
    IF oid = <<>> THEN <<>>
    ELSE <<HexDigits[(oid[1] \div 16) + 1], HexDigits[(oid[1] % 16) + 1]>>
         \o StrOid(Tail(oid))

(* The n-th identifier the store generates in collection number c: 4 bytes *)
(* of time, 5 bytes that differ from collection to collection, 3 bytes of  *)
(* counter.                                                                *)
NewObjectId(c, n) ==
    <<101, 240, 193, 162, 155, 61, 78, 95, c,
      (n \div 65536) % 256, (n \div 256) % 256, n % 256>>

USER == 1
CHALLENGE == 2
SOLVE == 3

----------------------------------------------------------------------------
(* Document Store Adapter *)

(* create_document(collection, record): the record is persisted under a    *)
(* fresh identifier, after the documents already there.                    *)
create_document(c, coll, doc) ==
    Append(coll, [_id |-> NewObjectId(c, Len(coll) + 1)] @@ doc)

(* The documents stored, and the requests that are about to store one *)
DocCount == Len(user) + Len(challenge) + Len(solve)
InFlight == BagCardinality(registering) + BagCardinality(submitting)

(* A request that will create a document is taken up while the documents   *)
(* stored and those about to be stored are fewer than MaxDocs.             *)
Room == DocCount + InFlight < MaxDocs

(* The identifier create_document returns, as a string *)
inserted_id(c, coll) == StrOid(NewObjectId(c, Len(coll) + 1))

(* find_one: of the positions of the documents that match the filter, the *)
(* first; 0 when no document matches.                                      *)
find_one(hits) ==
    IF hits = {} THEN 0 ELSE CHOOSE i \in hits : \A j \in hits : i <= j

(* A filter {field: value, ...} matches the documents that hold the values *)
Matches(doc, filter) == \A f \in DOMAIN filter : doc[f] = filter[f]

(* The documents of coll[lo..hi] that match the filter, in store order *)
RECURSIVE Matching(_, _, _, _)
Matching(coll, filter, lo, hi) ==
    IF lo > hi THEN <<>>
    ELSE IF lo = hi THEN (IF Matches(coll[lo], filter) THEN <<coll[lo]>> ELSE <<>>)
    ELSE LET mid == (lo + hi) \div 2
         IN  Matching(coll, filter, lo, mid) \o Matching(coll, filter, mid + 1, hi)

(* get_documents(collection, filter, limit): the first `limit` matching    *)
(* documents, in store order.                                              *)
get_documents(coll, filter, limit) ==
    LET found == Matching(coll, filter, 1, Len(coll))
    IN  SubSeq(found, 1, IF Len(found) < limit THEN Len(found) ELSE limit)

----------------------------------------------------------------------------
(* Responses *)

Ok(op, req, body) == [op |-> op, req |-> req, status |-> 200, body |-> body]
HTTPException(op, req, status, detail) ==
    [op |-> op, req |-> req, status |-> status, body |-> [detail |-> detail]]
(* A pydantic ValidationError raised inside a handler is not caught,       *)
(* and the framework answers it in plain text, not JSON.                   *)
PlainText(text) == [text |-> text]
InternalError(op, req) ==
    [op |-> op, req |-> req, status |-> 500, body |-> PlainText("Internal Server Error")]

----------------------------------------------------------------------------
(* POST /api/register *)

(* Variant: the check looks at the username alone *)
RegisterMatch_username_only(payload, doc) == doc.username = payload.username

RegisterMatch(payload, doc) ==
    doc.username = payload.username \/ doc.email = payload.email

(* Variant: the password is stored as it came *)
UserSchema_plain_password(payload) ==
    [username |-> payload.username,
     email |-> payload.email,
     password_hash |-> payload.password,
     bio |-> None,
     avatar_url |-> None]

UserSchema(payload) ==
    [username |-> payload.username,
     email |-> payload.email,
     password_hash |-> sha256(payload.password),
     bio |-> None,
     avatar_url |-> None]

(* The payloads of the requests; "alice" is the password of alice alone *)
RegisterRequests ==
    {r \in [username : Usernames, email : Emails, password : Passwords] :
        r.password = "alice" => (r.username = "alice" /\ r.email = "alice@example.com")}

RegisterConflict(payload) ==
    HTTPException("register", payload, 400, "Username or email already exists")

(* The handler is a plain function, which the framework runs on a thread   *)
(* pool: its find_one and its create_document are two store operations,    *)
(* and requests in flight together interleave between them.                *)

(* A request in flight: its payload and, for the properties, the number of *)
(* User documents its find_one looked at.                                  *)
RegisterInFlight(payload) == [payload |-> payload, seen |-> Len(user)]

(* find_one({"$or": [...]}) and the refusal or the go-ahead *)
register_find_one(payload) ==
    LET existing == find_one({i \in 1..Len(user) : RegisterMatch(payload, user[i])})
    IN  /\ IF existing # 0
           THEN /\ resp' = RegisterConflict(payload)
                /\ UNCHANGED registering
           ELSE /\ Room
                /\ registering' = registering (+) SetToBag({RegisterInFlight(payload)})
                /\ UNCHANGED resp
        /\ UNCHANGED <<user, challenge, solve, submitting, registered, contributed, accepted>>

RegisterFindOne == \E payload \in RegisterRequests : register_find_one(payload)

(* UserSchema(...), create_document("user", user) and the response *)
register_create_document(r) ==
    /\ user' = create_document(USER, user, UserSchema(r.payload))
    /\ registered' = Append(registered, r.payload)
    /\ resp' = Ok("register", r.payload, [ok |-> TRUE, user_id |-> inserted_id(USER, user)])
    /\ registering' = registering (-) SetToBag({r})
    /\ UNCHANGED <<challenge, solve, submitting, contributed, accepted>>

RegisterCreateDocument == \E r \in BagToSet(registering) : register_create_document(r)

----------------------------------------------------------------------------
(* POST /api/login *)

(* Variant: the lookup ignores the password *)
LoginMatch_username_only(payload, doc) == doc.username = payload.username

LoginMatch(payload, doc) ==
    doc.username = payload.username /\ doc.password_hash = sha256(payload.password)

LoginRequests == [username : Usernames, password : Passwords]

login(payload) ==
    LET found == find_one({i \in 1..Len(user) : LoginMatch(payload, user[i])})
    IN  /\ resp' = IF found = 0
                   THEN HTTPException("login", payload, 401, "Invalid credentials")
                   ELSE Ok("login", payload, [ok |-> TRUE, username |-> user[found].username])
        /\ UNCHANGED <<user, challenge, solve, registering, submitting, registered, contributed, accepted>>

Login == \E payload \in LoginRequests : login(payload)

----------------------------------------------------------------------------
(* POST /api/challenges *)

ContributeRequests ==
    [title : Titles, description : {"Find the flag"}, flag : Flags,
     points : PointValues, tags : {None}]

(* Variant: the schema puts no bound on points *)
ChallengeSchemaValid_any(payload) == TRUE

(* Challenge.points is Field(..., ge=0): the schema refuses anything else *)
ChallengeSchemaValid(payload) == payload.points >= 0

ChallengeSchema(payload) ==
    [title |-> payload.title,
     description |-> payload.description,
     flag_hash |-> sha256(payload.flag),
     points |-> payload.points,
     author |-> ANONYMOUS,
     tags |-> payload.tags,
     is_active |-> TRUE]

contribute_challenge(payload) ==
    /\ IF ~ChallengeSchemaValid(payload)
       THEN /\ resp' = InternalError("contribute_challenge", payload)
            /\ UNCHANGED <<challenge, contributed>>
       ELSE /\ Room
            /\ challenge' = create_document(CHALLENGE, challenge, ChallengeSchema(payload))
            /\ contributed' = Append(contributed, payload)
            /\ resp' = Ok("contribute_challenge", payload,
                          [ok |-> TRUE, challenge_id |-> inserted_id(CHALLENGE, challenge)])
    /\ UNCHANGED <<user, solve, registering, submitting, registered, accepted>>

ContributeChallenge == \E payload \in ContributeRequests : contribute_challenge(payload)

----------------------------------------------------------------------------
(* GET /api/challenges *)

ActiveFilter == [is_active |-> TRUE]

(* Variant: flag_hash is not popped *)
ListItem_keeps_hash(it) ==
    [f \in DOMAIN it |-> IF f = "_id" THEN StrOid(it._id) ELSE it[f]]

(* it["_id"] = str(it["_id"]); it.pop("flag_hash", None) *)
ListItem(it) ==
    [f \in DOMAIN it \ {"flag_hash"} |-> IF f = "_id" THEN StrOid(it._id) ELSE it[f]]

list_challenges_items ==
    LET items == get_documents(challenge, ActiveFilter, LIST_LIMIT)
    IN  [i \in 1..Len(items) |-> ListItem(items[i])]

ListChallenges ==
    /\ resp' = Ok("list_challenges", None, [ok |-> TRUE, items |-> list_challenges_items])
    /\ UNCHANGED <<user, challenge, solve, registering, submitting, registered, contributed, accepted>>

----------------------------------------------------------------------------
(* POST /api/submit-flag *)

Upper(s) == [i \in 1..Len(s) |->
                IF \E k \in 1..16 : HexDigits[k] = s[i]
                THEN UpperHex[CHOOSE k \in 1..16 : HexDigits[k] = s[i]]
                ELSE s[i]]
Spaced(s) == <<" ", "\t", "\n", "\r", VT, "\f">> \o SubSeq(s, 7, Len(s))
Gee(s) == <<"g">> \o Tail(s)

(* The challenge_id texts of the requests: the string form of the          *)
(* identifiers of the first k challenges and of the next one; the first    *)
(* also in upper case and with whitespace for its first 3 bytes; and three texts  *)
(* that are no identifier.                                                 *)
IdText(c, n) == StrOid(NewObjectId(c, n))

IdTextsUpTo(k) ==
    LET known == {IdText(CHALLENGE, n) : n \in 1..(k + 1)}
    IN  known
        \cup {Upper(IdText(CHALLENGE, 1)), Spaced(IdText(CHALLENGE, 1)),
              <<>>, Tail(IdText(CHALLENGE, 1)), Gee(IdText(CHALLENGE, 1))}

IdTexts == [k \in 0..MaxDocs |-> IdTextsUpTo(k)]

ChallengeIdTexts ==
    IdTexts[IF Len(challenge) < MaxDocs THEN Len(challenge) ELSE MaxDocs]

(* ObjectId(text) of every text a request carries, computed once *)
ParsedIds == [s \in IdTexts[MaxDocs] |-> ObjectId(s)]

SubmitFlagRequests == [challenge_id : ChallengeIdTexts, flag : Flags]

SolveSchemaValid(doc) == doc.points >= 0

(* Variant: the points are not copied from the challenge *)
SolveSchema_zero_points(ch) ==
    [challenge_id |-> StrOid(ch._id), username |-> ANONYMOUS, points |-> 0]

SolveSchema(ch) ==
    [challenge_id |-> StrOid(ch._id), username |-> ANONYMOUS, points |-> ch.points]

(* Variant: is_active is not looked at *)
SubmitFlagOutcome_ignores_active(payload) ==
    LET oid == ParsedIds[payload.challenge_id]
        ch == find_one({i \in 1..Len(challenge) : challenge[i]._id = oid.bytes})
    IN  IF ~oid.ok THEN "invalid_id"
        ELSE IF ch = 0 THEN "not_found"
        ELSE IF sha256(payload.flag) # challenge[ch].flag_hash THEN "incorrect"
        ELSE "accepted"

(* How far a request gets: the first check it fails, or "accepted" *)
SubmitFlagOutcome(payload) ==
    LET oid == ParsedIds[payload.challenge_id]
        ch == find_one({i \in 1..Len(challenge) : challenge[i]._id = oid.bytes})
    IN  IF ~oid.ok THEN "invalid_id"
        ELSE IF ch = 0 \/ ~challenge[ch].is_active THEN "not_found"
        ELSE IF sha256(payload.flag) # challenge[ch].flag_hash THEN "incorrect"
        ELSE IF ~SolveSchemaValid(SolveSchema(challenge[ch])) THEN "invalid_solve"
        ELSE "accepted"

SubmitFlagError(payload, outcome) ==
    CASE outcome = "invalid_id" ->
             HTTPException("submit_flag", payload, 400, "Invalid challenge id")
      [] outcome = "not_found" ->
             HTTPException("submit_flag", payload, 404, "Challenge not found")
      [] outcome = "incorrect" ->
             HTTPException("submit_flag", payload, 400, "Incorrect flag")
      [] outcome = "invalid_solve" ->
             InternalError("submit_flag", payload)

(* As register, the handler is served on the thread pool, and its find_one *)
(* and its create_document are two store operations.                       *)

(* A request in flight: its payload and the challenge its find_one returned *)
SubmitInFlight(payload, ch) == [payload |-> payload, ch |-> ch]

(* ObjectId(...), find_one({"_id": ...}) and the checks of what it returned *)
submit_flag_find_one(payload) ==
    LET oid == ParsedIds[payload.challenge_id]
        ch == find_one({i \in 1..Len(challenge) : challenge[i]._id = oid.bytes})
        outcome == SubmitFlagOutcome(payload)
    IN  /\ IF outcome # "accepted"
           THEN /\ resp' = SubmitFlagError(payload, outcome)
                /\ UNCHANGED submitting
           ELSE /\ Room
                /\ submitting' = submitting (+) SetToBag({SubmitInFlight(payload, challenge[ch])})
                /\ UNCHANGED resp
        /\ UNCHANGED <<user, challenge, solve, registering, registered, contributed, accepted>>

SubmitFlagFindOne == \E payload \in SubmitFlagRequests : submit_flag_find_one(payload)

(* create_document("solve", solve) and the response *)
submit_flag_create_document(r) ==
    /\ solve' = create_document(SOLVE, solve, SolveSchema(r.ch))
    /\ accepted' = Append(accepted, r.ch.points)
    /\ resp' = Ok("submit_flag", r.payload, [ok |-> TRUE, message |-> "Flag accepted"])
    /\ submitting' = submitting (-) SetToBag({r})
    /\ UNCHANGED <<user, challenge, registering, registered, contributed>>

SubmitFlagCreateDocument == \E r \in BagToSet(submitting) : submit_flag_create_document(r)

----------------------------------------------------------------------------
(* GET /api/leaderboard *)

(* The positions in docs[lo..hi] where a username appears for the first    *)
(* time in docs, in order.                                                 *)
RECURSIVE FirstPositions(_, _, _)
FirstPositions(docs, lo, hi) ==
    IF lo > hi THEN <<>>
    ELSE IF lo = hi
         THEN (IF \A j \in 1..(lo - 1) : docs[j].username # docs[lo].username
               THEN <<lo>> ELSE <<>>)
    ELSE LET mid == (lo + hi) \div 2
         IN  FirstPositions(docs, lo, mid) \o FirstPositions(docs, mid + 1, hi)

(* The usernames of the Solve documents, each once *)
GroupKeys(docs) ==
    LET at == FirstPositions(docs, 1, Len(docs))
    IN  [k \in 1..Len(at) |-> docs[at[k]].username]

(* {"$sum": "$points"} over docs[lo..hi] of one username *)
RECURSIVE SumPoints(_, _, _, _)
SumPoints(docs, u, lo, hi) ==
    IF lo > hi THEN 0
    ELSE IF lo = hi THEN (IF docs[lo].username = u THEN docs[lo].points ELSE 0)
    ELSE LET mid == (lo + hi) \div 2
         IN  SumPoints(docs, u, lo, mid) + SumPoints(docs, u, mid + 1, hi)

(* Variant: {"$sum": 1}, the number of Solves instead of their points *)
Group_counts(docs) ==
    LET keys == GroupKeys(docs)
    IN  {[_id |-> keys[i],
          score |-> Cardinality({j \in 1..Len(docs) : docs[j].username = keys[i]})] :
            i \in 1..Len(keys)}

(* {"$group": {"_id": "$username", "score": {"$sum": "$points"}}}: one row *)
(* for each username; the store fixes no order of the rows.                *)
Group(docs) ==
    LET keys == GroupKeys(docs)
    IN  {[_id |-> keys[i], score |-> SumPoints(docs, keys[i], 1, Len(docs))] :
            i \in 1..Len(keys)}

(* Every sequence that holds each element of S once *)
RECURSIVE Orders(_)
Orders(S) ==
    IF S = {} THEN {<<>>}
    ELSE UNION {{<<x>> \o rest : rest \in Orders(S \ {x})} : x \in S}

(* The values V from the greatest to the least, and from the least up *)
Descending(V) ==
    [r \in 1..Cardinality(V) |-> CHOOSE v \in V : Cardinality({w \in V : w > v}) = r - 1]
Ascending(V) ==
    [r \in 1..Cardinality(V) |-> CHOOSE v \in V : Cardinality({w \in V : w < v}) = r - 1]

(* Every sequence of the rows whose score is one of scores[lo..hi] that   *)
(* has the scores in the order scores gives them; rows of one score come   *)
(* in any order.                                                           *)
RECURSIVE Arrange(_, _, _, _)
Arrange(rows, scores, lo, hi) ==
    IF lo > hi THEN {<<>>}
    ELSE IF lo = hi THEN Orders({row \in rows : row.score = scores[lo]})
    ELSE LET mid == (lo + hi) \div 2
         IN  {a \o b : a \in Arrange(rows, scores, lo, mid),
                       b \in Arrange(rows, scores, mid + 1, hi)}

(* Variant: {"$sort": {"score": 1}} *)
SortDesc_ascending(rows) ==
    LET scores == Ascending({row.score : row \in rows})
    IN  Arrange(rows, scores, 1, Len(scores))

(* {"$sort": {"score": -1}} of rows that come in no fixed order: every     *)
(* outcome the store may produce, which is every order of the rows with    *)
(* non-increasing score.                                                   *)
SortDesc(rows) ==
    LET scores == Descending({row.score : row \in rows})
    IN  Arrange(rows, scores, 1, Len(scores))

(* {"$limit": n} *)
Limit(rows, n) == SubSeq(rows, 1, IF Len(rows) < n THEN Len(rows) ELSE n)

(* The item lists the aggregation may return *)
leaderboard_items(docs) ==
    {[i \in 1..Len(rows) |-> [username |-> rows[i]._id, score |-> rows[i].score]] :
        rows \in {Limit(sorted, LEADERBOARD_LIMIT) : sorted \in SortDesc(Group(docs))}}

Leaderboard ==
    /\ \E items \in leaderboard_items(solve) :
           resp' = Ok("leaderboard", None, [ok |-> TRUE, items |-> items])
    /\ UNCHANGED <<user, challenge, solve, registering, submitting, registered, contributed, accepted>>

----------------------------------------------------------------------------
(* The requests of all handlers, in flight together, on a store that holds *)
(* at most a challenge that was retired.                                   *)

Start == [op |-> "start", req |-> None, status |-> 0, body |-> None]

RetiredPayload ==
    [title |-> "Retired", description |-> "Find the flag", flag |-> "flag{abc}",
     points |-> 100, tags |-> None]

RetiredChallenge ==
    [_id |-> NewObjectId(CHALLENGE, 1), title |-> "Retired", description |-> "Find the flag",
     flag_hash |-> sha256("flag{abc}"), points |-> 100, author |-> ANONYMOUS,
     tags |-> None, is_active |-> FALSE]

(* No request in flight, nothing answered, no user registered *)
Fresh ==
    /\ user = <<>>
    /\ resp = Start
    /\ registering = EmptyBag
    /\ submitting = EmptyBag
    /\ registered = <<>>
    /\ accepted = <<>>

Init ==
    /\ Fresh
    /\ solve = <<>>
    /\ \/ challenge = <<>> /\ contributed = <<>>
       \/ challenge = <<RetiredChallenge>> /\ contributed = <<RetiredPayload>>

Next ==
    \/ RegisterFindOne
    \/ RegisterCreateDocument
    \/ Login
    \/ ContributeChallenge
    \/ ListChallenges
    \/ SubmitFlagFindOne
    \/ SubmitFlagCreateDocument
    \/ Leaderboard

Spec == Init /\ [][Next]_vars

----------------------------------------------------------------------------
(* list_challenges on a store that already holds up to MaxSeedChallenges   *)
(* challenges.                                                             *)

SeedActive(k, i) ==
    CASE k = 1 -> TRUE
      [] k = 2 -> i % 2 = 1
      [] k = 3 -> i > 1

SeedPayload(i) ==
    [title |-> "Warmup", description |-> "Find the flag", flag |-> "flag{abc}",
     points |-> i, tags |-> None]

SeedChallenge(k, i) ==
    [_id |-> NewObjectId(CHALLENGE, i), title |-> "Warmup",
     description |-> "Find the flag", flag_hash |-> sha256("flag{abc}"),
     points |-> i, author |-> ANONYMOUS, tags |-> None,
     is_active |-> SeedActive(k, i)]

ListInit ==
    /\ Fresh
    /\ solve = <<>>
    /\ \E n \in 0..MaxSeedChallenges, k \in 1..3 :
           /\ challenge = [i \in 1..n |-> SeedChallenge(k, i)]
           /\ contributed = [i \in 1..n |-> SeedPayload(i)]

ListNext ==
    \/ ContributeChallenge
    \/ ListChallenges

SpecList == ListInit /\ [][ListNext]_vars

----------------------------------------------------------------------------
(* leaderboard on a solve collection of any contents: up to MaxSeedSolvers *)
(* usernames besides "anonymous".                                          *)

(* Pattern 1: all scores differ, the least is 0.  Patterns 2 and 3: the    *)
(* three least scores are equal.                                           *)
SeedPoints(k, i) ==
    IF k = 1 THEN i - 1
    ELSE IF i <= 3 THEN 2 ELSE i

SeedSolve(u, points) ==
    [challenge_id |-> IdText(CHALLENGE, 1), username |-> u, points |-> points]

(* Solver i has one Solve.  In pattern 3 "anonymous" joins the least       *)
(* scores, solver 5 has a second Solve that lifts it to the score of       *)
(* solver 6, and the solver of the greatest score has a second Solve.      *)
SeedSolves(n, k) ==
    LET first == [i \in 1..n |-> SeedSolve(ToString(i), SeedPoints(k, i))]
        own == <<SeedSolve(ANONYMOUS, 2)>>
        fifth == IF n >= 5 THEN <<SeedSolve("5", 1)>> ELSE <<>>
        top == IF n >= 1 THEN <<SeedSolve(ToString(n), 1)>> ELSE <<>>
        docs == IF k = 3 THEN first \o own \o fifth \o top ELSE first
    IN  [i \in 1..Len(docs) |-> [_id |-> NewObjectId(SOLVE, i)] @@ docs[i]]

BoardInit ==
    /\ Fresh
    /\ challenge = <<>>
    /\ contributed = <<>>
    /\ \E n \in 0..MaxSeedSolvers, k \in 1..3 : solve = SeedSolves(n, k)

BoardNext == Leaderboard

SpecBoard == BoardInit /\ [][BoardNext]_vars

----------------------------------------------------------------------------
(* Vocabulary of the properties *)

Last(q) == q[Len(q)]

(* The active challenges whose identifier the text denotes *)
ActiveWithId(text) ==
    {i \in 1..Len(challenge) :
        /\ challenge[i].is_active
        /\ ParsedIds[text].ok
        /\ ParsedIds[text].bytes = challenge[i]._id}

(* The challenges, active or not, whose identifier the text denotes *)
StoredWithId(text) ==
    {i \in 1..Len(challenge) :
        ParsedIds[text].ok /\ ParsedIds[text].bytes = challenge[i]._id}

IsSubmit(r) == r.op = "submit_flag"

----------------------------------------------------------------------------
(* The challenges a submission is correct for: active, named by its        *)
(* challenge_id, with the digest of its flag as flag_hash.                 *)
SolvedBy(req) ==
    {i \in ActiveWithId(req.challenge_id) : challenge[i].flag_hash = sha256(req.flag)}

(* The requests a step takes up, and those it finishes *)
TakenUp(bag) == {r \in BagToSet(bag') : CopiesIn(r, bag') > CopiesIn(r, bag)}
Finished(bag) == {r \in BagToSet(bag) : CopiesIn(r, bag') < CopiesIn(r, bag)}

(* What the steps that handle a correct submission do: it is not refused;  *)
(* its lookup changes nothing; its insert appends the Solve and answers.   *)
C1_AcceptedStep ==
    /\ (IsSubmit(resp') /\ resp' # resp /\ SolvedBy(resp'.req) # {}) => resp'.status = 200
    /\ \A r \in TakenUp(submitting) :
           /\ \E i \in SolvedBy(r.payload) : r.ch = challenge[i]
           /\ solve' = solve /\ user' = user /\ challenge' = challenge
    /\ \A r \in Finished(submitting) :
           /\ resp' = Ok("submit_flag", r.payload, [ok |-> TRUE, message |-> "Flag accepted"])
           /\ Len(solve') = Len(solve) + 1
           /\ SubSeq(solve', 1, Len(solve)) = solve
           /\ \E i \in SolvedBy(r.payload) :
                  /\ r.ch = challenge[i]
                  /\ Last(solve').points = challenge[i].points
                  /\ Last(solve').challenge_id = StrOid(challenge[i]._id)
                  /\ Last(solve').username = "anonymous"
           /\ user' = user
           /\ challenge' = challenge

(* C1: a submit_flag request that names an existing active challenge and   *)
(* carries a flag whose digest is that challenge's flag_hash succeeds and  *)
(* appends exactly one Solve: points of the challenge as looked up,        *)
(* challenge_id the string form of the challenge's id, username            *)
(* "anonymous"; the user and challenge collections stay as they were.      *)
C1_CorrectFlagCreatesOneSolve == [][C1_AcceptedStep]_vars

(* An accepted submission whose challenge_id was written in upper case:    *)
(* the Solve holds the identifier's own string form, not the text sent.    *)
C1_Witness ==
    /\ IsSubmit(resp)
    /\ resp.status = 200
    /\ solve # <<>>
    /\ Last(solve).challenge_id # resp.req.challenge_id
    /\ Last(solve).points = 100

----------------------------------------------------------------------------
(* What a step that handles a submission does when it fails *)
C2_FailedStep ==
    IsSubmit(resp') =>
        LET req == resp'.req
            id == ParsedIds[req.challenge_id]
        IN  /\ resp'.status # 200 =>
                   /\ solve' = solve
                   /\ user' = user
                   /\ challenge' = challenge
            /\ ~id.ok => resp'.status = 400
            /\ (id.ok /\ ActiveWithId(req.challenge_id) = {}) => resp'.status = 404
            /\ (\E i \in ActiveWithId(req.challenge_id) :
                    challenge[i].flag_hash # sha256(req.flag)) => resp'.status = 400

(* C2: a submit_flag request that fails creates no Solve and changes no    *)
(* collection; it is answered 400 when the challenge_id is no store        *)
(* identifier, 404 when the identifier is that of no challenge or of an    *)
(* inactive one, 400 when the flag's digest is not the flag_hash of the    *)
(* active challenge named.                                                 *)
C2_FailedSubmitCreatesNothing == [][C2_FailedStep]_vars

(* The correct flag of a challenge that is stored but inactive: 404 *)
C2_Witness ==
    /\ IsSubmit(resp)
    /\ resp.status = 404
    /\ \E i \in StoredWithId(resp.req.challenge_id) :
           /\ ~challenge[i].is_active
           /\ challenge[i].flag_hash = sha256(resp.req.flag)
    /\ solve = <<>>

----------------------------------------------------------------------------
(* The users that hold the username or the email of a request *)
TakenBy(req) ==
    {i \in 1..Len(user) :
        user[i].username = req.username \/ user[i].email = req.email}

(* What the steps of a register request do.  A request is handled after   *)
(* the others, and before them, when no User was stored between its lookup *)
(* and its insert.                                                         *)
C3_RegisterStep ==
    /\ (resp'.op = "register" /\ resp'.status # 200) =>
           /\ resp'.status = 400
           /\ TakenBy(resp'.req) # {}
           /\ user' = user
    /\ \A r \in TakenUp(registering) :
           /\ TakenBy(r.payload) = {}
           /\ r.seen = Len(user)
           /\ user' = user
    /\ \A r \in Finished(registering) :
           /\ r.seen = Len(user) => TakenBy(r.payload) = {}
           /\ resp'.op = "register" /\ resp'.req = r.payload /\ resp'.status = 200
           /\ Len(user') = Len(user) + 1
           /\ SubSeq(user', 1, Len(user)) = user
           /\ Last(user').username = r.payload.username
           /\ Last(user').email = r.payload.email
           /\ resp'.body.user_id = StrOid(Last(user')._id)

(* C3: handled one after another, a register request is refused with 400   *)
(* and stores nothing when a User has its username or has its email;       *)
(* otherwise it appends exactly one User and returns that User's id.       *)
C3_RegisterRejectsTaken == [][C3_RegisterStep]_vars

(* Refused although the username is free: only the email is taken *)
C3_Witness ==
    /\ resp.op = "register"
    /\ resp.status = 400
    /\ Len(user) = 1
    /\ user[1].username # resp.req.username
    /\ user[1].email = resp.req.email

----------------------------------------------------------------------------
(* C4: no two User documents have the same username, and no two have the   *)
(* same email, in every state that register requests in flight together    *)
(* reach.                                                                  *)
C4_UniqueUsers ==
    \A i, j \in 1..Len(user) :
        i # j => /\ user[i].username # user[j].username
                 /\ user[i].email # user[j].email

----------------------------------------------------------------------------
(* A user holds the username and the digest of the password of a request *)
CredentialsHeld(req) ==
    \E i \in 1..Len(user) :
        /\ user[i].username = req.username
        /\ user[i].password_hash = sha256(req.password)

C5_LoginStep ==
    resp'.op = "login" =>
        /\ IF CredentialsHeld(resp'.req)
           THEN /\ resp'.status = 200
                /\ resp'.body = [ok |-> TRUE, username |-> resp'.req.username]
           ELSE /\ resp'.status = 401
                /\ resp'.body = [detail |-> "Invalid credentials"]
        /\ user' = user
        /\ challenge' = challenge
        /\ solve' = solve

(* C5: login succeeds, returning the username, exactly when a User has the *)
(* username supplied and the digest of the password supplied; otherwise it *)
(* answers 401 with one and the same body; it changes no collection.       *)
C5_LoginIffCredentials == [][C5_LoginStep]_vars

(* A registered username with another user's password: 401 *)
C5_Witness ==
    /\ resp.op = "login"
    /\ resp.status = 401
    /\ Len(user) = 2
    /\ \E i, j \in 1..2 :
           /\ i # j
           /\ user[i].username = resp.req.username
           /\ user[j].password_hash = sha256(resp.req.password)

----------------------------------------------------------------------------
ActiveChallenges == {i \in 1..Len(challenge) : challenge[i].is_active}

(* C6: every item list_challenges returns is an active challenge and has   *)
(* no flag_hash field, there are at most 100 items, and every stored       *)
(* challenge still holds its flag_hash.                                    *)
C6_ListHidesFlagHash ==
    resp.op = "list_challenges" =>
        LET items == resp.body.items
        IN  /\ Len(items) <= 100
            /\ \A k \in 1..Len(items) :
                   /\ "flag_hash" \notin DOMAIN items[k]
                   /\ items[k].is_active = TRUE
                   /\ \E i \in ActiveChallenges : items[k]._id = StrOid(challenge[i]._id)
            /\ \A i \in 1..Len(challenge) :
                   /\ "flag_hash" \in DOMAIN challenge[i]
                   /\ challenge[i].flag_hash = sha256(contributed[i].flag)

(* A listing cut at 100 items, of a store that holds more active ones *)
C6_Witness ==
    /\ resp.op = "list_challenges"
    /\ Len(resp.body.items) = 100
    /\ Cardinality(ActiveChallenges) > 100

----------------------------------------------------------------------------
Solvers == {solve[i].username : i \in 1..Len(solve)}

(* The sum of the points (all >= 0) of the Solves of u, by counting *)
ScoreOf(u) ==
    Cardinality(UNION {{<<i, k>> : k \in 1..solve[i].points} :
                          i \in {j \in 1..Len(solve) : solve[j].username = u}})

(* C7: leaderboard returns one entry for each username that has a Solve,   *)
(* with the sum of the points of that username's Solves as its score, in   *)
(* order of non-increasing score, cut to the first 50; a username that has *)
(* no Solve is in no entry.                                                *)
C7_LeaderboardRanksSums ==
    resp.op = "leaderboard" =>
        LET items == resp.body.items
            listed == {items[k].username : k \in 1..Len(items)}
        IN  /\ Len(items) = (IF Cardinality(Solvers) < 50 THEN Cardinality(Solvers) ELSE 50)
            /\ Cardinality(listed) = Len(items)
            /\ listed \subseteq Solvers
            /\ \A k \in 1..Len(items) : items[k].score = ScoreOf(items[k].username)
            /\ \A k \in 1..(Len(items) - 1) : items[k].score >= items[k + 1].score
            /\ \A u \in Solvers \ listed : ScoreOf(u) <= items[Len(items)].score

(* More than 50 usernames, the first entry's with two Solves, and a tie at *)
(* the cut.                                                              *)
C7_Witness ==
    /\ resp.op = "leaderboard"
    /\ Len(resp.body.items) = 50
    /\ Cardinality(Solvers) > 50
    /\ \E i, j \in 1..Len(solve) :
           /\ i # j
           /\ solve[i].username = solve[j].username
           /\ solve[i].username = resp.body.items[1].username
    /\ resp.body.items[49].score = resp.body.items[50].score

----------------------------------------------------------------------------
RECURSIVE SeqSum(_)
SeqSum(q) == IF q = <<>> THEN 0 ELSE Head(q) + SeqSum(Tail(q))

(* C8: after any requests to register, login, contribute_challenge and     *)
(* submit_flag, leaderboard returns nothing when no submission was         *)
(* accepted, and otherwise the one entry "anonymous" whose score is the    *)
(* sum, over the accepted submissions, of the solved challenge's points.   *)
C8_LeaderboardIsAnonymous ==
    resp.op = "leaderboard" =>
        resp.body.items =
            IF accepted = <<>> THEN <<>>
            ELSE <<[username |-> "anonymous", score |-> SeqSum(accepted)]>>

(* alice registered, a challenge of 100 points contributed and solved *)
C8_Witness ==
    /\ resp.op = "leaderboard"
    /\ \E i \in 1..Len(user) : user[i].username = "alice"
    /\ accepted = <<100>>
    /\ resp.body.items = <<[username |-> "anonymous", score |-> 100]>>

----------------------------------------------------------------------------
(* The secrets given: the passwords registered and the flags contributed *)
Plaintexts ==
    {registered[i].password : i \in 1..Len(registered)}
        \cup {contributed[i].flag : i \in 1..Len(contributed)}

(* The fields of a document that hold text *)
TextFields(doc) == DOMAIN doc \ {"_id", "points", "is_active"}

(* A field of a document holds a secret given, in whatever request, only   *)
(* when the request that created the document carried that very text as    *)
(* its value for that field, and the field is not the secret's own.        *)
OnlyAsSupplied(doc, payload, secret) ==
    \A f \in TextFields(doc) :
        doc[f] \in Plaintexts =>
            /\ f \in DOMAIN payload \ {secret}
            /\ payload[f] = doc[f]

(* C9: no stored document holds a plaintext password or flag.  Every       *)
(* password_hash is the digest of the password given at registration and   *)
(* every flag_hash the digest of the flag given at contribution, neither   *)
(* is the plaintext, and no handler writes a secret into any field: a      *)
(* field of a User or Challenge equals a password or flag given only where *)
(* the request itself supplied that text as the value of that field, and   *)
(* the one text a handler writes into a Solve is "anonymous".              *)
C9_NoPlaintextStored ==
    /\ Len(registered) = Len(user)
    /\ Len(contributed) = Len(challenge)
    /\ \A i \in 1..Len(user) :
           /\ user[i].password_hash = sha256(registered[i].password)
           /\ user[i].password_hash # registered[i].password
           /\ OnlyAsSupplied(user[i], registered[i], "password")
    /\ \A i \in 1..Len(challenge) :
           /\ challenge[i].flag_hash = sha256(contributed[i].flag)
           /\ challenge[i].flag_hash # contributed[i].flag
           /\ OnlyAsSupplied(challenge[i], contributed[i], "flag")
    /\ \A i \in 1..Len(solve) :
           /\ solve[i].username = "anonymous"
           /\ solve[i].username \notin Plaintexts

(* A user whose password is also their username, a challenge whose flag is *)
(* also its title, and that challenge solved.                              *)
C9_Witness ==
    /\ \E i \in 1..Len(user) : registered[i].password = user[i].username
    /\ \E i \in 1..Len(challenge) :
           /\ contributed[i].flag = challenge[i].title
           /\ challenge[i].is_active
    /\ solve # <<>>

----------------------------------------------------------------------------
(* C10: every Solve names, by its string id, a Challenge that is stored,   *)
(* has that Challenge's points, and these are >= 0; a contribute_challenge *)
(* request with negative points is refused and no Challenge has negative   *)
(* points.                                                                 *)
C10_SolvesReferToChallenges ==
    /\ \A i \in 1..Len(solve) :
           /\ solve[i].points >= 0
           /\ \E j \in 1..Len(challenge) :
                  /\ solve[i].challenge_id = StrOid(challenge[j]._id)
                  /\ solve[i].points = challenge[j].points
    /\ \A j \in 1..Len(challenge) : challenge[j].points >= 0
    /\ (resp.op = "contribute_challenge" /\ resp.req.points < 0) => resp.status = 500

(* A solve is stored and the last request contributed negative points *)
C10_Witness ==
    /\ solve # <<>>
    /\ resp.op = "contribute_challenge"
    /\ resp.req.points < 0
    /\ resp.status = 500

====
